---- MODULE Spec2Model ----
(***************************************************************************)
(* FunctionDateOrDateTimeToSomething<ToDataType, Transform> and            *)
(* WithDateTime64Converter<Transform>                                      *)
(* (dbms/src/Functions/FunctionDateOrDateTimeToSomething.h).               *)
(*                                                                         *)
(* The three entry points of the function object (getReturnTypeImpl,       *)
(* executeImpl, getMonotonicityForRange) are modelled as operators and     *)
(* applied by one action each; the process-wide default time zone          *)
(* (DateLUT::instance()) is a state variable.                              *)
(*                                                                         *)
(* 64-bit machine integers are kept at full width.  Since the model        *)
(* checker's integers are narrower than 64 bits, a 64-bit word is a tuple  *)
(* of four 16-bit limbs, least significant first, read as two's complement *)
(* when signed.                                                            *)
(***************************************************************************)
EXTENDS Integers, Sequences, FiniteSets, TLC

VARIABLES defaultTimeZone, call, prev

vars == <<defaultTimeZone, call, prev>>

-----------------------------------------------------------------------------
(* Bounds of the model *)

\* longest input batch handed to executeImpl
MaxRows == 2

\* largest number of arguments handed to getReturnTypeImpl
MaxArgs == 3

-----------------------------------------------------------------------------
(* 64-bit words as four 16-bit limbs *)

LimbBase == 2^16

Zero64 == <<0, 0, 0, 0>>

\* x * m + a (mod 2^64), for 0 <= m, a < 2^15
MulSmallAdd(x, m, a) ==
    LET c1 == x[1] * m + a
        c2 == x[2] * m + (c1 \div LimbBase)
        c3 == x[3] * m + (c2 \div LimbBase)
        c4 == x[4] * m + (c3 \div LimbBase)
    IN  <<c1 % LimbBase, c2 % LimbBase, c3 % LimbBase, c4 % LimbBase>>

AddSmall(x, a) == MulSmallAdd(x, 1, a)

\* the word written in decimal digits, most significant first
RECURSIVE DecFrom(_, _)
DecFrom(acc, digits) ==
    IF digits = <<>> THEN acc
    ELSE DecFrom(MulSmallAdd(acc, 10, Head(digits)), Tail(digits))

Dec(digits) == DecFrom(Zero64, digits)

\* bitwise complement and two's complement negation
Not64(x) == [i \in 1..4 |-> (LimbBase - 1) - x[i]]

Neg64(x) == AddSmall(Not64(x), 1)

IsNegative(x) == x[4] >= 2^15

\* unsigned quotient x / d, for 0 < d < 2^15 (schoolbook long division)
DivU(x, d) ==
    LET n4 == x[4]
        n3 == (n4 % d) * LimbBase + x[3]
        n2 == (n3 % d) * LimbBase + x[2]
        n1 == (n2 % d) * LimbBase + x[1]
    IN  <<n1 \div d, n2 \div d, n3 \div d, n4 \div d>>

\* signed quotient rounded toward negative infinity, 0 < d < 2^15
FloorDivSmall(x, d) ==
    IF IsNegative(x) THEN Neg64(DivU(AddSmall(Neg64(x), d - 1), d))
    ELSE DivU(x, d)

\* floor(x / 10^scale), x signed
RECURSIVE FloorDivPow10(_, _)
FloorDivPow10(x, scale) ==
    IF scale = 0 THEN x ELSE FloorDivPow10(FloorDivSmall(x, 10), scale - 1)

\* unsigned order on words
LessU(x, y) ==
    \E i \in 1..4 : x[i] < y[i] /\ \A j \in (i + 1)..4 : x[j] = y[j]

\* signed (two's complement) order on words
LessS(x, y) ==
    IF IsNegative(x) # IsNegative(y) THEN IsNegative(x) ELSE LessU(x, y)

LessEqS(x, y) == x = y \/ LessS(x, y)

\* the narrowing casts UInt32(...) and UInt16(...) of a 64-bit value
ToUInt32(x) == <<x[1], x[2], 0, 0>>

ToUInt16(x) == <<x[1], 0, 0, 0>>

FitsUInt32(x) == x[3] = 0 /\ x[4] = 0

-----------------------------------------------------------------------------
(* Calendar and time zones (DateLUTImpl) *)

TimeZones == {"UTC", "Etc/GMT-3"}

\* offset from UTC in seconds
UTCOffset(time_zone) == IF time_zone = "Etc/GMT-3" THEN 3 * 3600 ELSE 0

\* proleptic Gregorian date of a day number (days since 1970-01-01)
CivilFromDays(days) ==
    LET z   == days + 719468
        era == z \div 146097
        doe == z - era * 146097
        yoe == (doe - (doe \div 1460) + (doe \div 36524) - (doe \div 146096)) \div 365
        doy == doe - (365 * yoe + (yoe \div 4) - (yoe \div 100))
        mp  == (5 * doy + 2) \div 153
        m   == IF mp < 10 THEN mp + 3 ELSE mp - 9
    IN  [year |-> yoe + era * 400 + (IF m <= 2 THEN 1 ELSE 0), month |-> m]

\* local day number of a UInt32 count of seconds since the epoch
DayOfSeconds(t, time_zone) ==
    LET a   == t[2] * 512 + (t[1] \div 128)          \* t div 128
        day == a \div 675                            \* t div 86400
        sec == (a % 675) * 128 + (t[1] % 128)        \* t mod 86400
    IN  day + ((sec + UTCOffset(time_zone)) \div 86400)

-----------------------------------------------------------------------------
(* Transforms (DateTimeTransforms.h): pluggable strategies *)

\* ExtractYear and ToMonthImpl are factored by calendar year;
\* ToRelativeDayNumImpl declares the "no factoring" marker.
Transforms == {"ExtractYear", "ToMonthImpl", "ToRelativeDayNumImpl"}

\* typename Transform::FactorTransform
FactorTransform(transform) ==
    IF transform = "ToRelativeDayNumImpl" THEN "ZeroTransform" ELSE "ToStartOfYearImpl"

\* Transform::execute(UInt16 d, tz) when width = 16, execute(UInt32 t, tz) when
\* width = 32: the overload is selected by the static type of the argument.
Transform_execute(transform, width, x, time_zone) ==
    LET day == IF width = 16 THEN x[1] ELSE DayOfSeconds(x, time_zone)
    IN  CASE transform = "ExtractYear" -> CivilFromDays(day).year
          [] transform = "ToMonthImpl" -> CivilFromDays(day).month
          [] transform = "ToRelativeDayNumImpl" -> day
          [] transform = "ToStartOfYearImpl" -> CivilFromDays(day).year
          [] OTHER -> 0

\* DecimalUtils::getWholePart(x, scale): whole part of a decimal of the given
\* scale, by integer division toward negative infinity by 10^scale
getWholePart(x, scale) == FloorDivPow10(x, scale)

-----------------------------------------------------------------------------
(* WithDateTime64Converter<Transform> *)

\* the argument of transform.execute at line 33:
\* static_cast<UInt32>(DecimalUtils::getWholePart(x, scale))
WithDateTime64Converter_seconds(scale, t) == ToUInt32(getWholePart(t, scale))

WithDateTime64Converter_execute(scale, transform, t, time_zone) ==
    Transform_execute(transform, 32, WithDateTime64Converter_seconds(scale, t), time_zone)

-----------------------------------------------------------------------------
(* Data types and arguments *)

NoError == "OK"

\* IDataType: name, scale (DateTime64 only), embedded time zone (DateTime family)
DataType(name, scale, time_zone) == [name |-> name, scale |-> scale, time_zone |-> time_zone]

isDate(type) == type.name = "Date"

isDateTime(type) == type.name = "DateTime"

isDateTime64(type) == type.name = "DateTime64"

isDateOrDateTime(type) == isDate(type) \/ isDateTime(type) \/ isDateTime64(type)

isString(type) == type.name = "String"

\* ColumnWithTypeAndName at type-resolution time: the column is present only
\* for a constant argument, and then holds its value
Argument(type, is_const, value) == [type |-> type, is_const |-> is_const, value |-> value]

\* extractTimeZoneNameFromFunctionArguments(arguments, 1, 0)
extractTimeZoneNameFromFunctionArguments(arguments) ==
    IF Len(arguments) = 2 /\ arguments[2].is_const THEN arguments[2].value
    ELSE arguments[1].type.time_zone

\* the function instantiations' ToDataType
ToDataTypes == {"Date", "DateTime", "DateTime64", "UInt16"}

\* the output types a time zone is attached to (lines 90-93)
hasTimeZoneSlot(to) == to \in {"DateTime", "DateTime64"}

-----------------------------------------------------------------------------
(* FunctionDateOrDateTimeToSomething::getReturnTypeImpl *)

Thrown(code) == [error |-> code, type |-> DataType("", 0, "")]

Returned(type) == [error |-> NoError, type |-> type]

\* as checkArguments, with the test of line 78 left out
checkArguments_NoDateTimeZoneTest(to, arguments) ==
    IF Len(arguments) = 1 THEN
        IF ~isDateOrDateTime(arguments[1].type) THEN "ILLEGAL_TYPE_OF_ARGUMENT" ELSE NoError
    ELSE IF Len(arguments) = 2 THEN
        IF ~isDateOrDateTime(arguments[1].type) THEN "ILLEGAL_TYPE_OF_ARGUMENT"
        ELSE IF ~isString(arguments[2].type) THEN "ILLEGAL_TYPE_OF_ARGUMENT"
        ELSE NoError
    ELSE "NUMBER_OF_ARGUMENTS_DOESNT_MATCH"

\* as checkArguments, with the first argument's test of the two-argument
\* branch (line 67) left out
checkArguments_NoFirstArgumentTest(to, arguments) ==
    IF Len(arguments) = 1 THEN
        IF ~isDateOrDateTime(arguments[1].type) THEN "ILLEGAL_TYPE_OF_ARGUMENT" ELSE NoError
    ELSE IF Len(arguments) = 2 THEN
        IF ~isString(arguments[2].type) THEN "ILLEGAL_TYPE_OF_ARGUMENT"
        ELSE IF isDate(arguments[1].type) /\ to = "Date" THEN "ILLEGAL_TYPE_OF_ARGUMENT"
        ELSE NoError
    ELSE "NUMBER_OF_ARGUMENTS_DOESNT_MATCH"

\* as checkArguments, with the two-argument branch taken for two or more
\* arguments (size() >= 2 at line 65)
checkArguments_TwoOrMore(to, arguments) ==
    IF Len(arguments) = 1 THEN
        IF ~isDateOrDateTime(arguments[1].type) THEN "ILLEGAL_TYPE_OF_ARGUMENT" ELSE NoError
    ELSE IF Len(arguments) >= 2 THEN
        IF ~isDateOrDateTime(arguments[1].type) THEN "ILLEGAL_TYPE_OF_ARGUMENT"
        ELSE IF ~isString(arguments[2].type) THEN "ILLEGAL_TYPE_OF_ARGUMENT"
        ELSE IF isDate(arguments[1].type) /\ to = "Date" THEN "ILLEGAL_TYPE_OF_ARGUMENT"
        ELSE NoError
    ELSE "NUMBER_OF_ARGUMENTS_DOESNT_MATCH"

\* lines 57-87: the error code thrown, or NoError
checkArguments(to, arguments) ==
    IF Len(arguments) = 1 THEN
        IF ~isDateOrDateTime(arguments[1].type) THEN "ILLEGAL_TYPE_OF_ARGUMENT" ELSE NoError
    ELSE IF Len(arguments) = 2 THEN
        IF ~isDateOrDateTime(arguments[1].type) THEN "ILLEGAL_TYPE_OF_ARGUMENT"
        ELSE IF ~isString(arguments[2].type) THEN "ILLEGAL_TYPE_OF_ARGUMENT"
        ELSE IF isDate(arguments[1].type) /\ to = "Date" THEN "ILLEGAL_TYPE_OF_ARGUMENT"
        ELSE NoError
    ELSE "NUMBER_OF_ARGUMENTS_DOESNT_MATCH"

\* lines 89-95: the time zone is attached to DateTime and DateTime64 only
returnType(to, arguments) ==
    IF to = "DateTime" THEN DataType(to, 0, extractTimeZoneNameFromFunctionArguments(arguments))
    ELSE IF to = "DateTime64" THEN DataType(to, 0, extractTimeZoneNameFromFunctionArguments(arguments))
    ELSE DataType(to, 0, "")

getReturnTypeImpl(to, arguments) ==
    IF checkArguments(to, arguments) # NoError THEN Thrown(checkArguments(to, arguments))
    ELSE Returned(returnType(to, arguments))

\* getArgumentsThatAreAlwaysConstant(): positions (0-based) declared constant
getArgumentsThatAreAlwaysConstant == {1}

-----------------------------------------------------------------------------
(* FunctionDateOrDateTimeToSomething::executeImpl *)

\* DateTimeTransformImpl<From, To, Transformer>::execute: the output column
\* holds transformer.execute(row, time_zone) for every input row, in order.
\* The rows of a Date column are UInt16, of a DateTime column UInt32, of a
\* DateTime64 column Int64 ticks.
DateTimeTransformImpl_execute(from, scale, transform, rows, time_zone) ==
    [i \in 1..Len(rows) |->
        CASE from = "Date"       -> Transform_execute(transform, 16, rows[i], time_zone)
          [] from = "DateTime"   -> Transform_execute(transform, 32, rows[i], time_zone)
          [] from = "DateTime64" -> WithDateTime64Converter_execute(scale, transform, rows[i], time_zone)]

Executed(column) == [error |-> NoError, column |-> column]

Failed(code) == [error |-> code, column |-> <<>>]

\* as executeImpl, with a DateTime64 column handed to the DateTime
\* specialization (no converter, the ticks read as seconds)
executeImpl_NoConverter(transform, from_type, rows, time_zone) ==
    IF isDate(from_type) THEN
        Executed(DateTimeTransformImpl_execute("Date", 0, transform, rows, time_zone))
    ELSE IF isDateTime(from_type) \/ isDateTime64(from_type) THEN
        Executed(DateTimeTransformImpl_execute("DateTime", 0, transform,
                                               [i \in 1..Len(rows) |-> ToUInt32(rows[i])], time_zone))
    ELSE Failed("ILLEGAL_TYPE_OF_ARGUMENT")

executeImpl(transform, from_type, rows, time_zone) ==
    IF isDate(from_type) THEN
        Executed(DateTimeTransformImpl_execute("Date", 0, transform, rows, time_zone))
    ELSE IF isDateTime(from_type) THEN
        Executed(DateTimeTransformImpl_execute("DateTime", 0, transform, rows, time_zone))
    ELSE IF isDateTime64(from_type) THEN
        Executed(DateTimeTransformImpl_execute("DateTime64", from_type.scale, transform, rows, time_zone))
    ELSE Failed("ILLEGAL_TYPE_OF_ARGUMENT")

-----------------------------------------------------------------------------
(* FunctionDateOrDateTimeToSomething::getMonotonicityForRange *)

\* IFunction::Monotonicity { is_monotonic_ }
Monotonicity(is_monotonic) ==
    [is_monotonic |-> is_monotonic, is_positive |-> TRUE, is_always_monotonic |-> FALSE]

\* Field: Null, or a 64-bit storage word
Field(which, storage) == [which |-> which, storage |-> storage]

NullField == Field("Null", Zero64)

Field_isNull(field) == field.which = "Null"

\* Field::get<UInt64>(): the storage read as an unsigned 64-bit integer
Field_getUInt64(field) == field.storage

\* as DateLUT_instance, with the reference kept from the preceding call
\* (a function-local static)
DateLUT_instance_Stale ==
    IF call.op = "getMonotonicityForRange" THEN call.result.default_time_zone ELSE defaultTimeZone

\* DateLUT::instance(): the process-wide default time zone
DateLUT_instance == defaultTimeZone

\* the boundary narrowed as at lines 147-158: UInt16(field.get<UInt64>()) for
\* a Date argument, UInt32(field.get<UInt64>()) for every other type
NarrowedBoundary(type, field) ==
    IF isDate(type) THEN ToUInt16(Field_getUInt64(field))
    ELSE ToUInt32(Field_getUInt64(field))

\* Transform::FactorTransform::execute(UIntN(field.get<UInt64>()), date_lut)
FactorAtBoundary(transform, type, field, date_lut) ==
    Transform_execute(FactorTransform(transform), IF isDate(type) THEN 16 ELSE 32,
                      NarrowedBoundary(type, field), date_lut)

\* as getMonotonicityForRange, with the left boundary compared with itself
getMonotonicityForRange_LeftTwice(transform, type, left, right) ==
    LET is_monotonic     == Monotonicity(TRUE)
        is_not_monotonic == Monotonicity(FALSE)
        date_lut         == DateLUT_instance
    IN  IF FactorTransform(transform) = "ZeroTransform" THEN
            [is_monotonic EXCEPT !.is_always_monotonic = TRUE]
        ELSE IF Field_isNull(left) \/ Field_isNull(right) THEN is_not_monotonic
        ELSE IF FactorAtBoundary(transform, type, left, date_lut)
                = FactorAtBoundary(transform, type, left, date_lut)
             THEN is_monotonic
             ELSE is_not_monotonic

\* as getMonotonicityForRange, with the test for Null boundaries made first
getMonotonicityForRange_NullFirst(transform, type, left, right) ==
    LET is_monotonic     == Monotonicity(TRUE)
        is_not_monotonic == Monotonicity(FALSE)
        date_lut         == DateLUT_instance
    IN  IF Field_isNull(left) \/ Field_isNull(right) THEN is_not_monotonic
        ELSE IF FactorTransform(transform) = "ZeroTransform" THEN
            [is_monotonic EXCEPT !.is_always_monotonic = TRUE]
        ELSE IF FactorAtBoundary(transform, type, left, date_lut)
                = FactorAtBoundary(transform, type, right, date_lut)
             THEN is_monotonic
             ELSE is_not_monotonic

getMonotonicityForRange(transform, type, left, right) ==
    LET is_monotonic     == Monotonicity(TRUE)
        is_not_monotonic == Monotonicity(FALSE)
        date_lut         == DateLUT_instance
    IN  IF FactorTransform(transform) = "ZeroTransform" THEN
            [is_monotonic EXCEPT !.is_always_monotonic = TRUE]
        ELSE IF Field_isNull(left) \/ Field_isNull(right) THEN is_not_monotonic
        ELSE IF FactorAtBoundary(transform, type, left, date_lut)
                = FactorAtBoundary(transform, type, right, date_lut)
             THEN is_monotonic
             ELSE is_not_monotonic

-----------------------------------------------------------------------------
(* Inputs *)

\* day numbers: 1970-01-01, 2020-12-31, 2021-01-01, the last UInt16
Day_Epoch == Zero64
Day_2020_12_31 == Dec(<<1, 8, 6, 2, 7>>)
Day_2021_01_01 == Dec(<<1, 8, 6, 2, 8>>)
Day_Last == Dec(<<6, 5, 5, 3, 5>>)

\* seconds: 2020-12-31 23:59:59, 2021-01-01 00:00:00, 2021-07-01 00:00:00 (UTC),
\* the last UInt32
Sec_2020_12_31 == Dec(<<1, 6, 0, 9, 4, 5, 9, 1, 9, 9>>)
Sec_2021_01_01 == Dec(<<1, 6, 0, 9, 4, 5, 9, 2, 0, 0>>)
Sec_2021_07_01 == Dec(<<1, 6, 2, 5, 0, 9, 7, 6, 0, 0>>)
Sec_Last == Dec(<<4, 2, 9, 4, 9, 6, 7, 2, 9, 5>>)

\* ticks: the same instants in milliseconds, one in nanoseconds, and two
\* instants before the epoch
Ms_2020_12_31 == Dec(<<1, 6, 0, 9, 4, 5, 9, 1, 9, 9, 0, 0, 0>>)
Ms_2021_01_01 == Dec(<<1, 6, 0, 9, 4, 5, 9, 2, 0, 0, 0, 0, 0>>)
Ms_2021_07_01 == Dec(<<1, 6, 2, 5, 0, 9, 7, 6, 0, 0, 0, 0, 0>>)
Ns_2021_01_01 == Dec(<<1, 6, 0, 9, 4, 5, 9, 2, 0, 0, 0, 0, 0, 0, 0, 0, 0, 0, 0>>)
Minus500 == Neg64(Dec(<<5, 0, 0>>))
Minus1 == Neg64(Dec(<<1>>))

\* boundaries that do not fit the narrowed width: 2^16 + 18627, 2^32 + 1609459199
Day_2020_12_31_Plus2p16 == Dec(<<8, 4, 1, 6, 3>>)
Sec_2020_12_31_Plus2p32 == Dec(<<5, 9, 0, 4, 4, 2, 6, 4, 9, 5>>)

DateRows == {Day_Epoch, Day_2020_12_31, Day_2021_01_01, Day_Last}

DateTimeRows == {Zero64, Sec_2020_12_31, Sec_2021_01_01, Sec_2021_07_01, Sec_Last}

DateTime64Rows ==
    {Zero64, Minus1, Minus500, Sec_2020_12_31, Sec_2021_01_01,
     Ms_2020_12_31, Ms_2021_01_01, Ms_2021_07_01, Ns_2021_01_01}

\* DateTime64 scales
Scales == 0..9

\* the scales columns and range boundaries are tried with
BoundaryScales == {0, 3, 9}

\* types a column handed to executeImpl can have
ColumnTypes ==
    {DataType("Date", 0, ""), DataType("DateTime", 0, ""), DataType("UInt32", 0, "")}
    \cup {DataType("DateTime64", s, "") : s \in BoundaryScales}

RowsOf(type) ==
    CASE isDate(type) -> DateRows
      [] isDateTime64(type) -> DateTime64Rows
      [] OTHER -> DateTimeRows

SeqsUpTo(S, n) == UNION {[1..k -> S] : k \in 0..n}

\* types handed to getMonotonicityForRange
RangeTypes ==
    {DataType("Date", 0, ""), DataType("DateTime", 0, "")}
    \cup {DataType("DateTime64", s, "") : s \in BoundaryScales}

\* range boundaries: Null, or a value of the argument's domain or beyond it
Boundaries ==
    {NullField}
    \cup {Field("UInt64", w) : w \in DateRows \cup DateTimeRows
                                     \cup {Day_2020_12_31_Plus2p16, Sec_2020_12_31_Plus2p32}}
    \cup {Field("Decimal64", w) : w \in DateTime64Rows}

BoundariesOf(type) ==
    IF isDateTime64(type) THEN {f \in Boundaries : f.which # "UInt64"}
    ELSE {f \in Boundaries : f.which # "Decimal64"}

\* arguments handed to getReturnTypeImpl
ArgumentSamples ==
    {Argument(DataType("Date", 0, ""), FALSE, ""),
     Argument(DataType("DateTime", 0, ""), FALSE, ""),
     Argument(DataType("DateTime", 0, "Etc/GMT-3"), FALSE, ""),
     Argument(DataType("DateTime64", 3, ""), FALSE, ""),
     Argument(DataType("DateTime64", 3, "Etc/GMT-3"), FALSE, ""),
     Argument(DataType("String", 0, ""), TRUE, "UTC"),
     Argument(DataType("String", 0, ""), FALSE, ""),
     Argument(DataType("UInt32", 0, ""), TRUE, "")}

-----------------------------------------------------------------------------
(* State machine *)

Call(op, args, result) == [op |-> op, args |-> args, result |-> result]

NoCall == Call("none", <<>>, <<>>)

Init ==
    /\ defaultTimeZone \in TimeZones
    /\ call = NoCall
    /\ prev = NoCall

\* the server's default time zone is (re)configured
SetDefaultTimeZone ==
    \E time_zone \in TimeZones :
        /\ time_zone # defaultTimeZone
        /\ defaultTimeZone' = time_zone
        /\ UNCHANGED <<call, prev>>

Call_getReturnTypeImpl ==
    /\ call = NoCall
    /\ \E to \in ToDataTypes, arguments \in SeqsUpTo(ArgumentSamples, MaxArgs) :
        call' = Call("getReturnTypeImpl",
                     [ToDataType |-> to, arguments |-> arguments],
                     getReturnTypeImpl(to, arguments))
    /\ prev' = NoCall
    /\ UNCHANGED defaultTimeZone

Call_WithDateTime64Converter_execute ==
    /\ call = NoCall
    /\ \E scale \in Scales, transform \in Transforms, t \in DateTime64Rows,
          time_zone \in TimeZones :
        call' = Call("WithDateTime64Converter::execute",
                     [scale |-> scale, transform |-> transform, t |-> t,
                      time_zone |-> time_zone],
                     [seconds |-> WithDateTime64Converter_seconds(scale, t),
                      res |-> WithDateTime64Converter_execute(scale, transform, t, time_zone)])
    /\ prev' = NoCall
    /\ UNCHANGED defaultTimeZone

Call_executeImpl ==
    /\ call = NoCall
    /\ \E transform \in Transforms, from_type \in ColumnTypes, time_zone \in TimeZones :
        \E rows \in SeqsUpTo(RowsOf(from_type), MaxRows) :
            call' = Call("executeImpl",
                         [transform |-> transform, from_type |-> from_type,
                          rows |-> rows, time_zone |-> time_zone],
                         executeImpl(transform, from_type, rows, time_zone))
    /\ prev' = NoCall
    /\ UNCHANGED defaultTimeZone

OracleCall(args) ==
    Call("getMonotonicityForRange", args,
         [monotonicity |-> getMonotonicityForRange(args.transform, args.type,
                                                   args.left, args.right),
          default_time_zone |-> defaultTimeZone])

\* The optimizer asks about a range, and may ask the same question again
\* before it moves on; prev keeps the answer it got before.  The call records
\* the process-wide default time zone at the time it is made.
Call_getMonotonicityForRange ==
    /\ \/ /\ call = NoCall
          /\ \E transform \in Transforms, type \in RangeTypes :
                \E left \in BoundariesOf(type), right \in BoundariesOf(type) :
                    call' = OracleCall([transform |-> transform, type |-> type,
                                        left |-> left, right |-> right])
          /\ prev' = NoCall
       \/ /\ call.op = "getMonotonicityForRange"
          /\ call' = OracleCall(call.args)
          /\ prev' = call
    /\ UNCHANGED defaultTimeZone

\* the caller has consumed the result
Return ==
    /\ call # NoCall
    /\ call' = NoCall
    /\ prev' = NoCall
    /\ UNCHANGED defaultTimeZone

Next ==
    \/ SetDefaultTimeZone
    \/ Return
    \/ Call_getReturnTypeImpl
    \/ Call_WithDateTime64Converter_execute
    \/ Call_executeImpl
    \/ Call_getMonotonicityForRange

Spec == Init /\ [][Next]_vars

-----------------------------------------------------------------------------
(* Properties *)

IsOracleCall(c) == c.op = "getMonotonicityForRange"

IsFactored(c) == FactorTransform(c.args.transform) # "ZeroTransform"

BothKnown(c) == c.args.left.which # "Null" /\ c.args.right.which # "Null"

\* calendar year (UTC) of a count of seconds that fits 32 bits
YearUTC(seconds) == CivilFromDays(DayOfSeconds(seconds, "UTC")).year

\* C1: for every scale in 0..9 and every tick value v, the whole-second value
\* WithDateTime64Converter::execute hands to the base transform equals
\* floor(v / 10^scale); the narrowing cast does not change the value.
C1_ScaleAdapterExact ==
    call.op = "WithDateTime64Converter::execute" =>
        call.result.seconds = FloorDivPow10(call.args.t, call.args.scale)

\* C2: for a factored transform, getMonotonicityForRange reports monotonic
\* exactly when both boundaries are non-null and the factor transform gives
\* equal values on the two boundaries, taken at day-count width (16 bits) for
\* Date and at second-count width (32 bits) otherwise; it never reports
\* is_always_monotonic.
C2_FactoredOracle ==
    (IsOracleCall(call) /\ IsFactored(call)) =>
        LET a == call.args
            m == call.result.monotonicity
            factor(f) ==
                IF a.type.name = "Date"
                THEN CivilFromDays(f.storage[1]).year
                ELSE CivilFromDays(DayOfSeconds(<<f.storage[1], f.storage[2], 0, 0>>,
                                                call.result.default_time_zone)).year
        IN  /\ m.is_monotonic = (BothKnown(call) /\ factor(a.left) = factor(a.right))
            /\ ~m.is_always_monotonic

C2_Witness ==
    /\ IsOracleCall(call) /\ IsFactored(call) /\ BothKnown(call)
    /\ call.args.type.name = "DateTime"
    /\ call.args.left = Field("UInt64", Sec_2021_01_01)
    /\ call.args.right = Field("UInt64", Sec_2021_07_01)
    /\ call.result.default_time_zone = "UTC"
    /\ call.result.monotonicity.is_monotonic
    /\ ~call.result.monotonicity.is_always_monotonic

\* C3: on a DateTime64 column and a transform factored by calendar year,
\* two ticks whose whole seconds lie in different calendar years (UTC) execute
\* to different years, and getMonotonicityForRange over that pair of ticks
\* reports not monotonic; at scale 3, [1609459200000, 1625097600000] executes
\* to [2021, 2021] and [1609459199000, 1609459200000] to [2020, 2021].
C3_ExecutionAndOracleAgree ==
    /\ (/\ call.op = "executeImpl"
        /\ call.args.transform = "ExtractYear"
        /\ call.args.from_type.name = "DateTime64"
        /\ call.args.time_zone = "UTC")
       => LET a == call.args
              whole(i) == FloorDivPow10(a.rows[i], a.from_type.scale)
          IN  /\ \A i, j \in 1..Len(a.rows) :
                    (/\ FitsUInt32(whole(i)) /\ FitsUInt32(whole(j))
                     /\ YearUTC(whole(i)) # YearUTC(whole(j)))
                    => call.result.column[i] # call.result.column[j]
              /\ (a.from_type.scale = 3 /\ a.rows = <<Ms_2021_01_01, Ms_2021_07_01>>)
                    => call.result.column = <<2021, 2021>>
              /\ (a.from_type.scale = 3 /\ a.rows = <<Ms_2020_12_31, Ms_2021_01_01>>)
                    => call.result.column = <<2020, 2021>>
    /\ (/\ IsOracleCall(call)
        /\ call.args.transform = "ExtractYear"
        /\ call.args.type.name = "DateTime64"
        /\ BothKnown(call)
        /\ call.result.default_time_zone = "UTC")
       => LET a == call.args
              l == FloorDivPow10(a.left.storage, a.type.scale)
              r == FloorDivPow10(a.right.storage, a.type.scale)
          IN  (/\ LessEqS(a.left.storage, a.right.storage)
               /\ FitsUInt32(l) /\ FitsUInt32(r) /\ YearUTC(l) # YearUTC(r))
                  => ~call.result.monotonicity.is_monotonic

IsTypeResolution(c) == c.op = "getReturnTypeImpl"

FailsWith(c, code) == c.result.error = code /\ c.result.type = DataType("", 0, "")

IsTemporal(argument) == argument.type.name \in {"Date", "DateTime", "DateTime64"}

IsConstantString(argument) == argument.type.name = "String" /\ argument.is_const

C6_Arity ==
    /\ IsTypeResolution(call) =>
        LET arguments == call.args.arguments
            valid == /\ IsTemporal(arguments[1])
                     /\ Len(arguments) = 2 =>
                            /\ IsConstantString(arguments[2])
                            /\ ~(arguments[1].type.name = "Date"
                                 /\ ~hasTimeZoneSlot(call.args.ToDataType))
        IN  /\ Len(arguments) \notin {1, 2}
                => FailsWith(call, "NUMBER_OF_ARGUMENTS_DOESNT_MATCH")
            /\ (Len(arguments) \in {1, 2} /\ valid)
                => /\ call.result.error = NoError
                   /\ call.result.type.name = call.args.ToDataType
    /\ call.op = "executeImpl" => call.result.error # "NUMBER_OF_ARGUMENTS_DOESNT_MATCH"
    /\ IsOracleCall(call) => call.result.monotonicity.is_monotonic \in BOOLEAN

C6_Witness ==
    /\ IsTypeResolution(call)
    /\ Len(call.args.arguments) = 3
    /\ IsTemporal(call.args.arguments[1])
    /\ IsConstantString(call.args.arguments[2])
    /\ call.result.error = "NUMBER_OF_ARGUMENTS_DOESNT_MATCH"

C8_AlwaysMonotonic ==
    (IsOracleCall(call) /\ ~IsFactored(call)) =>
        /\ call.result.monotonicity.is_monotonic
        /\ call.result.monotonicity.is_always_monotonic

C8_Witness ==
    /\ IsOracleCall(call) /\ ~IsFactored(call)
    /\ call.args.left = NullField
    /\ call.args.right = Field("UInt64", Day_2021_01_01)
    /\ call.result.monotonicity.is_always_monotonic

SameQuestion == IsOracleCall(prev) /\ IsOracleCall(call) /\ prev.args = call.args

C10_OracleSound ==
    (/\ IsOracleCall(call) /\ IsFactored(call) /\ BothKnown(call)
     /\ LessEqS(call.args.left.storage, call.args.right.storage)
     /\ call.result.monotonicity.is_monotonic)
    => LET a == call.args
           executed(v) ==
               executeImpl(a.transform, a.type, <<v>>,
                           call.result.default_time_zone).column[1]
       IN  \A v, w \in RowsOf(a.type) :
               (/\ LessEqS(a.left.storage, v)
                /\ LessEqS(v, w)
                /\ LessEqS(w, a.right.storage))
               => executed(v) <= executed(w)

====
